---- MODULE Spec2Model ----
(***************************************************************************)
(* Rental lifecycle of the boardcamp server (src/server.js): the handlers  *)
(* POST /rentals, POST /rentals/:id/return and DELETE /rentals/:id running *)
(* against the shared store.  A handler is an async function: between two  *)
(* awaited queries other handlers may run, so every awaited query together *)
(* with the synchronous code that follows it is one step of the handler.   *)
(***************************************************************************)
EXTENDS Integers, FiniteSets, Sequences, TLC

\* ---------------------------------------------------------------- bounds
NReq == 2          \* request handlers that may be in flight at once
MaxRentals == 2    \* rows the rentals table may ever receive (serial ids)
MaxStock == 2      \* largest stockTotal of the catalogued game
StartDay == 2      \* the calendar day the server starts on
MaxDay == 3        \* last calendar day the clock reaches
MaxCustomers == 2  \* rows the customers table may ever hold (serial ids)

\* ---------------------------------------------------------------- values
Null == -1         \* SQL NULL / JS null in returnDate and delayFee
Undefined == -2    \* a body field that is missing or not a number

Procs == 1..NReq
RentalIds == 1..MaxRentals
Prices == {10}
GameInputs == {1, 2}        \* game 1 exists, game 2 does not
CustomerInputs == {1, 2}    \* customer 1 exists, customer 2 does not
DaysInputs == {0, 1, 2, Undefined}
CustomerIds == 1..MaxCustomers
CpfInputs == {1, 2, Undefined}    \* Undefined: a body customersSchema rejects

NoReq == [op |-> "none", customerId |-> Undefined, gameId |-> Undefined,
          daysRented |-> Undefined, id |-> Undefined, cpf |-> Undefined]
CreateReqs == {[op |-> "create", customerId |-> c, gameId |-> g,
                daysRented |-> d, id |-> Undefined, cpf |-> Undefined] :
                 c \in CustomerInputs, g \in GameInputs, d \in DaysInputs}
ReturnReqs == {[op |-> "return", customerId |-> Undefined, gameId |-> Undefined,
                daysRented |-> Undefined, id |-> i, cpf |-> Undefined] : i \in RentalIds}
DeleteReqs == {[op |-> "delete", customerId |-> Undefined, gameId |-> Undefined,
                daysRented |-> Undefined, id |-> i, cpf |-> Undefined] : i \in RentalIds}

RentalReqs == CreateReqs \cup ReturnReqs \cup DeleteReqs
PostCustomerReqs == {[op |-> "postCustomer", customerId |-> Undefined,
                      gameId |-> Undefined, daysRented |-> Undefined,
                      id |-> Undefined, cpf |-> c] : c \in CpfInputs}
PutCustomerReqs == {[op |-> "putCustomer", customerId |-> Undefined,
                     gameId |-> Undefined, daysRented |-> Undefined,
                     id |-> i, cpf |-> c] : i \in CustomerIds, c \in CpfInputs}
CustomerReqs == PostCustomerReqs \cup PutCustomerReqs
ListOps == {"getCategories", "getGames", "getCustomers", "getRentals"}
ListReqs == {[op |-> o, customerId |-> Undefined, gameId |-> Undefined,
              daysRented |-> Undefined, id |-> Undefined, cpf |-> Undefined] :
               o \in ListOps}

VARIABLES
  games,      \* table games: id -> [stockTotal, pricePerDay]
  customers,  \* table customers: id -> cpf
  nextCustomerId,  \* the serial of customers.id
  rentals,    \* table rentals: id -> row
  nextId,     \* the serial of rentals.id
  today,      \* the calendar day Date.now() falls on
  pc,         \* per handler: the await it is suspended at
  req,        \* per handler: the request (params and body)
  status,     \* per handler: the status sent with res.send, 0 before
  loc         \* per handler: its local constants (date, price, stock, ...)

vars == <<games, customers, nextCustomerId, rentals, nextId, today, pc, req, status, loc>>

NoLoc == [date |-> Null, price |-> Null, stock |-> Null,
          returnDate |-> Null, delayFee |-> Null]

\* ---------------------------------------------------------------- helpers
InFlight(p) == pc[p] \notin {"idle", "done", "hung", "crashed"}

\* rentalsReqSchema.validate: the three fields are required numbers
Valid(r) ==
  /\ r.customerId # Undefined
  /\ r.gameId # Undefined
  /\ r.daysRented # Undefined

\* gamePrice.rows[0].pricePerDay * daysRented
OriginalPrice(pricePerDay, daysRented) == pricePerDay * daysRented

\* SELECT * FROM rentals WHERE "gameId" = $1  (every row of the game)
\* (the query restricted to the rows not yet returned)
MutRentedGamesOpenOnly(g) ==
  {i \in DOMAIN rentals : rentals[i].gameId = g /\ rentals[i].returnDate = Null}
RentedGames(g) == {i \in DOMAIN rentals : rentals[i].gameId = g}

\* rentedGames.rows.length >= stock.rows[0].stockTotal
\* (the comparison taken strictly)
MutNoStockStrict(n, stockTotal) == n > stockTotal
NoStock(n, stockTotal) == n >= stockTotal

\* SELECT ... FROM rentals WHERE id = $1
RowsWithId(i) == IF i \in DOMAIN rentals THEN <<rentals[i]>> ELSE <<>>

\* if (rentalExists.rows.length > 0) return res.send(404)
\* (the comparison turned round)
MutReturnNotFoundWhenAbsent(n) == n <= 0
ReturnRespondsNotFound(n) == n > 0

\* if (rentalExists.rows.length > 0) return res.send(404)
\* (the comparison turned round)
MutDeleteNotFoundWhenAbsent(n) == n <= 0
DeleteRespondsNotFound(n) == n > 0

\* SELECT id FROM customers WHERE id = $1
CustomersWithId(c) == {i \in DOMAIN customers : i = c}

\* if (customerExists.rows.length <= 0) return res.send(400)
\* (the comparison taken strictly)
MutCustomerMissingStrict(n) == n < 0
CustomerMissing(n) == n <= 0

\* if (!rental.rows[0].returnDate) return res.send(400)
RespondsStateError(row) == row.returnDate = Null

\* diff = dayjs(returnDate).diff(dayjs(rentDate).add(daysRented,'day'), 'day')
LateDays(row, returnDate) == returnDate - (row.rentDate + row.daysRented)

\* pricePerDay = originalPrice / daysRented; delayFee = diff > 0 ? pricePerDay * diff : null
\* (JS division is exact here: originalPrice is a multiple of daysRented in
\* every row, see RowsWellFormed)
DelayFee(row, returnDate) ==
  IF LateDays(row, returnDate) > 0
    THEN (row.originalPrice \div row.daysRented) * LateDays(row, returnDate)
    ELSE Null

OpenRentals(g) == {i \in DOMAIN rentals :
                     rentals[i].gameId = g /\ rentals[i].returnDate = Null}

NewRow(c, g, date, days, price) ==
  [customerId |-> c, gameId |-> g, rentDate |-> date, daysRented |-> days,
   originalPrice |-> price, returnDate |-> Null, delayFee |-> Null]

\* INSERT INTO rentals (...) VALUES (...): the table with the new row under the
\* next serial id
\* (the statement writing every row)
MutInsertedOverwrites(row) == [i \in DOMAIN rentals \cup {nextId} |-> row]
Inserted(row) ==
  [i \in DOMAIN rentals \cup {nextId} |-> IF i = nextId THEN row ELSE rentals[i]]

Answer(p, code) ==
  /\ pc' = [pc EXCEPT ![p] = "done"]
  /\ status' = [status EXCEPT ![p] = code]
  /\ loc' = [loc EXCEPT ![p] = NoLoc]

Goto(p, label) ==
  /\ pc' = [pc EXCEPT ![p] = label]
  /\ UNCHANGED status

\* ---------------------------------------------------------------- initial states
\* The store outlives the server: it starts with the catalogue, the customer
\* roster and a ledger of earlier rentals, open or returned, within stock.
InitRows(gs) ==
  {[customerId |-> 1, gameId |-> 1, rentDate |-> 0, daysRented |-> d,
    originalPrice |-> gs[1].pricePerDay * d, returnDate |-> rd, delayFee |-> Null] :
      d \in {1, 2}, rd \in {Null, 1}}

Init ==
  /\ games \in [{1} -> [stockTotal : 1..MaxStock, pricePerDay : Prices]]
  /\ customers = [i \in {1} |-> 1]
  /\ nextCustomerId = 2
  /\ \E n \in 0..MaxStock :
       /\ n <= games[1].stockTotal
       /\ n <= MaxRentals
       /\ rentals \in [1..n -> InitRows(games)]
       /\ nextId = n + 1
  /\ today = StartDay
  /\ pc = [p \in Procs |-> "idle"]
  /\ req = [p \in Procs |-> NoReq]
  /\ status = [p \in Procs |-> 0]
  /\ loc = [p \in Procs |-> NoLoc]

\* ---------------------------------------------------------------- actions
Pending == {p \in Procs : InFlight(p) /\ req[p].op = "create"}

PendingCustomers == {p \in Procs : InFlight(p) /\ req[p].op = "postCustomer"}

\* A request of the set R arrives and its handler is scheduled.
ReceiveFrom(p, R) ==
  /\ ~InFlight(p)
  /\ \E r \in R :
       /\ r.op = "create" => nextId + Cardinality(Pending) <= MaxRentals
       /\ r.op = "postCustomer" =>
            nextCustomerId + Cardinality(PendingCustomers) <= MaxCustomers
       /\ req' = [req EXCEPT ![p] = r]
       /\ pc' = [pc EXCEPT ![p] =
                   CASE r.op = "create" -> "cr_validate"
                     [] r.op = "return" -> "rt_exists"
                     [] r.op = "delete" -> "dl_exists"
                     [] r.op = "postCustomer" -> "cc_validate"
                     [] r.op = "putCustomer" -> "pu_old"
                     [] r.op \in ListOps -> "ls_query"]
  /\ status' = [status EXCEPT ![p] = 0]
  /\ loc' = [loc EXCEPT ![p] = NoLoc]
  /\ UNCHANGED <<games, customers, nextCustomerId, rentals, nextId, today>>

\* A request of the rental lifecycle arrives.
Receive(p) == ReceiveFrom(p, RentalReqs)

\* server.post('/rentals')
CreateStep(p) ==
  LET r == req[p] IN
  /\ req[p].op = "create"
  /\ InFlight(p)
  /\ UNCHANGED <<games, customers, nextCustomerId, today, req>>
  /\ CASE pc[p] = "cr_validate" ->
            /\ UNCHANGED <<rentals, nextId>>
            /\ IF ~Valid(r)
                 THEN Answer(p, 400)
                 ELSE /\ Goto(p, "cr_price")
                      /\ loc' = [loc EXCEPT ![p].date = today]
       [] pc[p] = "cr_price" ->
            /\ UNCHANGED <<rentals, nextId>>
            /\ IF r.gameId \notin DOMAIN games
                 THEN Answer(p, 500)
                 ELSE /\ Goto(p, "cr_customer")
                      /\ loc' = [loc EXCEPT ![p].price =
                           OriginalPrice(games[r.gameId].pricePerDay, r.daysRented)]
       [] pc[p] = "cr_customer" ->
            /\ UNCHANGED <<rentals, nextId>>
            /\ IF CustomerMissing(Cardinality(CustomersWithId(r.customerId)))
                 THEN Answer(p, 400)
                 ELSE Goto(p, "cr_game") /\ UNCHANGED loc
       [] pc[p] = "cr_game" ->
            /\ UNCHANGED <<rentals, nextId>>
            /\ IF r.gameId \notin DOMAIN games \/ r.daysRented <= 0
                 THEN Answer(p, 400)
                 ELSE Goto(p, "cr_stock") /\ UNCHANGED loc
       [] pc[p] = "cr_stock" ->
            /\ UNCHANGED <<rentals, nextId>>
            /\ Goto(p, "cr_rented")
            /\ loc' = [loc EXCEPT ![p].stock = games[r.gameId].stockTotal]
       [] pc[p] = "cr_rented" ->
            /\ UNCHANGED <<rentals, nextId>>
            /\ IF NoStock(Cardinality(RentedGames(r.gameId)), loc[p].stock)
                 THEN Answer(p, 400)
                 ELSE Goto(p, "cr_insert") /\ UNCHANGED loc
       [] pc[p] = "cr_insert" ->
            /\ rentals' = Inserted(NewRow(r.customerId, r.gameId, loc[p].date,
                                          r.daysRented, loc[p].price))
            /\ nextId' = nextId + 1
            /\ Answer(p, 201)

\* server.post('/rentals/:id/return')
ReturnStep(p) ==
  LET i == req[p].id
      rows == RowsWithId(i) IN
  /\ req[p].op = "return"
  /\ InFlight(p)
  /\ UNCHANGED <<games, customers, nextCustomerId, today, req, nextId>>
  /\ CASE pc[p] = "rt_exists" ->
            /\ UNCHANGED rentals
            /\ IF ReturnRespondsNotFound(Len(rows))
                 THEN Answer(p, 404)
                 ELSE Goto(p, "rt_fetch") /\ UNCHANGED loc
       [] pc[p] = "rt_fetch" ->
            /\ UNCHANGED rentals
            /\ IF Len(rows) = 0
                 THEN Answer(p, 500)
                 ELSE IF RespondsStateError(rows[1])
                   THEN Answer(p, 400)
                   ELSE /\ Goto(p, "rt_update")
                        /\ loc' = [loc EXCEPT ![p].returnDate = today,
                                              ![p].delayFee = DelayFee(rows[1], today)]
       [] pc[p] = "rt_update" ->
            /\ rentals' = [j \in DOMAIN rentals |->
                             IF j = i
                               THEN [rentals[j] EXCEPT !.returnDate = loc[p].returnDate,
                                                       !.delayFee = loc[p].delayFee]
                               ELSE rentals[j]]
            /\ Answer(p, 201)

\* server.delete('/rentals/:id')
DeleteStep(p) ==
  LET i == req[p].id
      rows == RowsWithId(i) IN
  /\ req[p].op = "delete"
  /\ InFlight(p)
  /\ UNCHANGED <<games, customers, nextCustomerId, today, req, nextId>>
  /\ CASE pc[p] = "dl_exists" ->
            /\ UNCHANGED rentals
            /\ IF DeleteRespondsNotFound(Len(rows))
                 THEN Answer(p, 404)
                 ELSE Goto(p, "dl_fetch") /\ UNCHANGED loc
       [] pc[p] = "dl_fetch" ->
            /\ UNCHANGED rentals
            /\ IF Len(rows) = 0
                 THEN Answer(p, 500)
                 ELSE IF RespondsStateError(rows[1])
                   THEN Answer(p, 400)
                   ELSE Goto(p, "dl_delete") /\ UNCHANGED loc
       [] pc[p] = "dl_delete" ->
            /\ rentals' = [j \in DOMAIN rentals \ {i} |-> rentals[j]]
            /\ Goto(p, "hung")
            /\ loc' = [loc EXCEPT ![p] = NoLoc]

\* SELECT cpf FROM customers WHERE cpf = $1
CustomersWithCpf(c) == {i \in DOMAIN customers : customers[i] = c}

\* customersSchema.validate
ValidCustomer(r) == r.cpf # Undefined

\* server.post('/customers')
PostCustomerStep(p) ==
  LET r == req[p] IN
  /\ r.op = "postCustomer"
  /\ InFlight(p)
  /\ UNCHANGED <<games, rentals, nextId, today, req>>
  /\ CASE pc[p] = "cc_validate" ->
            /\ UNCHANGED <<customers, nextCustomerId>>
            /\ IF ~ValidCustomer(r)
                 THEN Answer(p, 400)
                 ELSE Goto(p, "cc_exists") /\ UNCHANGED loc
       [] pc[p] = "cc_exists" ->
            /\ UNCHANGED <<customers, nextCustomerId>>
            /\ IF Cardinality(CustomersWithCpf(r.cpf)) > 0
                 THEN Answer(p, 409)
                 ELSE Goto(p, "cc_insert") /\ UNCHANGED loc
       [] pc[p] = "cc_insert" ->
            /\ customers' = [i \in DOMAIN customers \cup {nextCustomerId} |->
                               IF i = nextCustomerId THEN r.cpf ELSE customers[i]]
            /\ nextCustomerId' = nextCustomerId + 1
            /\ Answer(p, 201)

\* if (oldCpf.rows.length <= 0) { ... the duplicate check ... }
PutChecksDuplicate(n) == n <= 0

\* server.put('/customers/:id')
PutCustomerStep(p) ==
  LET r == req[p] IN
  /\ r.op = "putCustomer"
  /\ InFlight(p)
  /\ UNCHANGED <<games, rentals, nextId, nextCustomerId, today, req>>
  /\ CASE pc[p] = "pu_old" ->
            /\ UNCHANGED customers
            /\ IF ~ValidCustomer(r)
                 THEN Answer(p, 400)
                 ELSE Goto(p, "pu_oldcpf") /\ UNCHANGED loc
       [] pc[p] = "pu_oldcpf" ->
            /\ UNCHANGED <<customers, loc>>
            /\ IF PutChecksDuplicate(Cardinality(CustomersWithCpf(r.cpf)))
                 THEN Goto(p, "pu_cpfexists")
                 ELSE Goto(p, "pu_update")
       [] pc[p] = "pu_cpfexists" ->
            /\ UNCHANGED customers
            /\ IF Cardinality(CustomersWithCpf(r.cpf)) > 0
                 THEN Answer(p, 409)
                 ELSE Goto(p, "pu_update") /\ UNCHANGED loc
       [] pc[p] = "pu_update" ->
            /\ customers' = [i \in DOMAIN customers |->
                               IF i = r.id THEN r.cpf ELSE customers[i]]
            /\ Answer(p, 201)

\* server.get('/categories'), server.get('/games'), server.get('/customers'),
\* server.get('/rentals'): one query, its rows sent back
ListStep(p) ==
  /\ req[p].op \in ListOps
  /\ pc[p] = "ls_query"
  /\ Answer(p, 200)
  /\ UNCHANGED <<games, customers, nextCustomerId, rentals, nextId, today, req>>

\* The awaited query of p stands inside a try block whose catch sends 500.
InsideTry(p) ==
  /\ req[p].op \notin {"getCategories", "getGames", "getCustomers"}
  /\ pc[p] \notin {"pu_old", "pu_oldcpf"}

\* The handler is suspended at an awaited query (not in its synchronous prefix).
AtQuery(p) == InFlight(p) /\ pc[p] \notin {"cr_validate", "cc_validate"}

\* The awaited query of p rejects (the store fails): the catch sends 500, or,
\* outside any try, the rejection of the handler's promise is handled by nobody
\* and no response is sent.
QueryFails(p) ==
  /\ AtQuery(p)
  /\ IF InsideTry(p)
       THEN Answer(p, 500)
       ELSE /\ pc' = [pc EXCEPT ![p] = "crashed"]
            /\ loc' = [loc EXCEPT ![p] = NoLoc]
            /\ UNCHANGED status
  /\ UNCHANGED <<games, customers, nextCustomerId, rentals, nextId, today, req>>

\* Date.now() moves on to the next calendar day.
Tick ==
  /\ today < MaxDay
  /\ today' = today + 1
  /\ UNCHANGED <<games, customers, nextCustomerId, rentals, nextId, pc, req, status, loc>>

Next ==
  \/ \E p \in Procs : Receive(p)
  \/ \E p \in Procs : CreateStep(p)
  \/ \E p \in Procs : ReturnStep(p)
  \/ \E p \in Procs : DeleteStep(p)
  \/ Tick

Spec == Init /\ [][Next]_vars

\* One handler at a time: a request is taken up only when no handler is in
\* flight, so the first handler slot serves every request.
ReceiveAtomic(p) ==
  /\ p = 1
  /\ \A q \in Procs : ~InFlight(q)
  /\ Receive(p)

NextAtomic ==
  \/ \E p \in Procs : ReceiveAtomic(p)
  \/ \E p \in Procs : CreateStep(p)
  \/ \E p \in Procs : ReturnStep(p)
  \/ \E p \in Procs : DeleteStep(p)
  \/ Tick

SpecAtomic == Init /\ [][NextAtomic]_vars

\* The customer roster: POST /customers and PUT /customers/:id, one at a time.
ReceiveCustomer(p) ==
  /\ p = 1
  /\ \A q \in Procs : ~InFlight(q)
  /\ ReceiveFrom(p, CustomerReqs)

NextCustomers ==
  \/ \E p \in Procs : ReceiveCustomer(p)
  \/ \E p \in Procs : PostCustomerStep(p)
  \/ \E p \in Procs : PutCustomerStep(p)
  \/ Tick

SpecCustomers == Init /\ [][NextCustomers]_vars

\* Every modelled endpoint, one handler at a time, over a store whose queries
\* may fail.
ReceiveAny(p) ==
  /\ p = 1
  /\ \A q \in Procs : ~InFlight(q)
  /\ ReceiveFrom(p, RentalReqs \cup CustomerReqs \cup ListReqs)

NextFaulty ==
  \/ \E p \in Procs : ReceiveAny(p)
  \/ \E p \in Procs : CreateStep(p)
  \/ \E p \in Procs : ReturnStep(p)
  \/ \E p \in Procs : DeleteStep(p)
  \/ \E p \in Procs : PostCustomerStep(p)
  \/ \E p \in Procs : PutCustomerStep(p)
  \/ \E p \in Procs : ListStep(p)
  \/ \E p \in Procs : QueryFails(p)
  \/ Tick

SpecFaulty == Init /\ [][NextFaulty]_vars

TypeOK ==
  /\ DOMAIN rentals \subseteq RentalIds
  /\ nextId \in 1..(MaxRentals + 1)
  /\ today \in 0..MaxDay
  /\ DOMAIN customers \subseteq CustomerIds
  /\ nextCustomerId \in 1..(MaxCustomers + 1)
  /\ \A p \in Procs : status[p] \in {0, 200, 201, 400, 404, 409, 500}

RowsWellFormed ==
  \A i \in DOMAIN rentals :
    /\ rentals[i].daysRented > 0
    /\ rentals[i].originalPrice % rentals[i].daysRented = 0

\* ---------------------------------------------------------------- claims
GameOf(p) == req[p].gameId

ValidCreate(p) ==
  /\ req[p].op = "create"
  /\ Valid(req[p])
  /\ req[p].gameId \in DOMAIN games
  /\ req[p].customerId \in DOMAIN customers
  /\ req[p].daysRented > 0

\* rentals' is rentals with exactly one more row, and that row satisfies P
InsertsOne(P(_)) ==
  \E i \in RentalIds \ DOMAIN rentals :
    /\ DOMAIN rentals' = DOMAIN rentals \cup {i}
    /\ \A j \in DOMAIN rentals : rentals'[j] = rentals[j]
    /\ P(rentals'[i])

\* C1: in every reachable state, interleaved POST /rentals handlers included,
\* the open rentals (returnDate = null) of a game never exceed its stockTotal.
C1_OpenRentalsWithinStock ==
  \A g \in DOMAIN games : Cardinality(OpenRentals(g)) <= games[g].stockTotal

\* C2: when all the handlers have answered create-rental requests for the same
\* game of stockTotal 1 whose ledger held no rental before them (every row of
\* the game was inserted by one of them), exactly one answered 201, the others
\* 400, and exactly one row was inserted.
C2_ExactlyOneConcurrentCreateSucceeds ==
  \A g \in DOMAIN games :
    ( /\ games[g].stockTotal = 1
      /\ \A p \in Procs : pc[p] = "done" /\ ValidCreate(p) /\ GameOf(p) = g
      /\ Cardinality(RentedGames(g)) = Cardinality({p \in Procs : status[p] = 201}) )
    => /\ Cardinality({p \in Procs : status[p] = 201}) = 1
       /\ Cardinality({p \in Procs : status[p] = 400}) = NReq - 1
       /\ Cardinality(RentedGames(g)) = 1

\* C3: handlers running one at a time: a valid create-rental request for a game
\* with fewer open rentals than stockTotal is answered only by the step that
\* inserts exactly one rental, with 201, originalPrice = pricePerDay * daysRented
\* and returnDate = delayFee = null; its other steps write nothing.
C3_Row(p, row) ==
  /\ row.customerId = req[p].customerId
  /\ row.gameId = req[p].gameId
  /\ row.daysRented = req[p].daysRented
  /\ row.originalPrice = games[req[p].gameId].pricePerDay * req[p].daysRented
  /\ row.returnDate = Null
  /\ row.delayFee = Null

C4_FullGameRejected ==
  [][\A p \in Procs :
       ( /\ InFlight(p)
         /\ req[p].op = "create"
         /\ GameOf(p) \in DOMAIN games
         /\ Cardinality(OpenRentals(GameOf(p))) = games[GameOf(p)].stockTotal )
       => /\ rentals' = rentals
          /\ pc'[p] = "done" => status'[p] = 400]_vars

C4_Witness ==
  \E p \in Procs :
    /\ pc[p] = "done"
    /\ ValidCreate(p)
    /\ status[p] = 400
    /\ Cardinality(OpenRentals(GameOf(p))) = games[GameOf(p)].stockTotal

C6_ReturnOpenRentalSucceeds ==
  [][\A p \in Procs :
       ( /\ InFlight(p)
         /\ req[p].op = "return"
         /\ req[p].id \in DOMAIN rentals
         /\ rentals[req[p].id].returnDate = Null )
       => /\ pc'[p] = "done" =>
               /\ status'[p] = 201
               /\ DOMAIN rentals' = DOMAIN rentals
               /\ \A j \in DOMAIN rentals \ {req[p].id} : rentals'[j] = rentals[j]
               /\ rentals'[req[p].id].returnDate \in StartDay..today
          /\ pc'[p] # "done" => rentals' = rentals]_vars

\* C7: handlers running one at a time: a return or delete handler for an id with
\* no rental leaves the ledger unchanged and answers 404; for an id with a rental
\* it never answers 404.
C7_NotFoundIffAbsent ==
  [][\A p \in Procs :
       (InFlight(p) /\ req[p].op \in {"return", "delete"})
       => /\ req[p].id \notin DOMAIN rentals
               => /\ rentals' = rentals
                  /\ pc'[p] = "done" => status'[p] = 404
          /\ (req[p].id \in DOMAIN rentals /\ pc'[p] = "done")
               => status'[p] # 404]_vars

C9_ReturnDateSetOnce ==
  [][\A i \in DOMAIN rentals \cap DOMAIN rentals' :
       /\ rentals[i].returnDate # Null =>
            /\ rentals'[i].returnDate = rentals[i].returnDate
            /\ rentals'[i].delayFee = rentals[i].delayFee
       /\ (rentals[i].returnDate = Null /\ rentals'[i].returnDate = Null) =>
            rentals'[i].delayFee = rentals[i].delayFee]_vars

C9_Witness ==
  \E p \in Procs :
    /\ pc[p] = "done"
    /\ req[p].op = "return"
    /\ status[p] # 0
    /\ req[p].id \in DOMAIN rentals
    /\ rentals[req[p].id].returnDate # Null
    /\ today > rentals[req[p].id].returnDate

\* C10: handlers running one at a time: when a return handler for an open rental
\* answers, the rental holds a return date d and the fee of that date: null when
\* d is not past rentDate + daysRented, otherwise
\* (originalPrice / daysRented) * (d - (rentDate + daysRented)).
C10_Fee(row, d) ==
  IF d - (row.rentDate + row.daysRented) <= 0
    THEN Null
    ELSE (row.originalPrice \div row.daysRented) * (d - (row.rentDate + row.daysRented))

C10_DelayFeeStored ==
  [][\A p \in Procs :
       ( /\ InFlight(p)
         /\ req[p].op = "return"
         /\ pc'[p] = "done"
         /\ req[p].id \in DOMAIN rentals
         /\ rentals[req[p].id].returnDate = Null )
       => \E d \in StartDay..today :
            /\ req[p].id \in DOMAIN rentals'
            /\ rentals'[req[p].id].delayFee = C10_Fee(rentals[req[p].id], d)]_vars

\* C11: handlers running one at a time: a delete handler for an existing rental
\* with returnDate = null writes nothing and answers 400; and in every step a
\* row leaves the ledger only if its returnDate was set.
C11_DeleteOpenRentalRejected ==
  [][/\ \A p \in Procs :
          ( /\ InFlight(p)
            /\ req[p].op = "delete"
            /\ req[p].id \in DOMAIN rentals
            /\ rentals[req[p].id].returnDate = Null )
          => /\ rentals' = rentals
             /\ pc'[p] = "done" => status'[p] = 400
     /\ \A i \in DOMAIN rentals \ DOMAIN rentals' : rentals[i].returnDate # Null]_vars

C13_UnknownGameRejected ==
  [][\A p \in Procs :
       ( /\ InFlight(p)
         /\ req[p].op = "create"
         /\ Valid(req[p])
         /\ req[p].gameId \notin DOMAIN games )
       => /\ rentals' = rentals
          /\ pc'[p] = "done" => status'[p] = 400]_vars

\* C14: handlers running one at a time: a create-rental handler for an existing
\* game whose customerId is not in the roster inserts nothing and answers 400,
\* whatever the stock of the game.
C14_UnknownCustomerRejected ==
  [][\A p \in Procs :
       ( /\ InFlight(p)
         /\ req[p].op = "create"
         /\ req[p].gameId \in DOMAIN games
         /\ CustomersWithId(req[p].customerId) = {} )
       => /\ rentals' = rentals
          /\ pc'[p] = "done" => status'[p] = 400]_vars

C14_Witness ==
  \E p \in Procs :
    /\ pc[p] = "done"
    /\ req[p].op = "create"
    /\ req[p].gameId \in DOMAIN games
    /\ CustomersWithId(req[p].customerId) = {}
    /\ req[p].daysRented > 0
    /\ Cardinality(RentedGames(GameOf(p))) < games[GameOf(p)].stockTotal
    /\ status[p] = 400

\* C15: in every step, every rental that stays in the ledger keeps its
\* originalPrice, customerId, gameId, rentDate and daysRented.
C15_CreationFieldsFrozen ==
  [][\A i \in DOMAIN rentals \cap DOMAIN rentals' :
       /\ rentals'[i].originalPrice = rentals[i].originalPrice
       /\ rentals'[i].customerId = rentals[i].customerId
       /\ rentals'[i].gameId = rentals[i].gameId
       /\ rentals'[i].rentDate = rentals[i].rentDate
       /\ rentals'[i].daysRented = rentals[i].daysRented]_vars

C15_Witness ==
  \E p \in Procs :
    /\ pc[p] = "done"
    /\ req[p].op = "create"
    /\ status[p] = 201
    /\ \E i, j \in DOMAIN rentals :
         /\ i < j
         /\ rentals[i].daysRented # rentals[j].daysRented

\* C18: handlers running one at a time: a create-rental handler whose daysRented
\* is a number <= 0 inserts nothing and answers 400, whatever its gameId and
\* customerId; and every rental of the ledger has daysRented > 0.
C18_NonPositiveDaysRejected ==
  /\ [][\A p \in Procs :
          ( /\ InFlight(p)
            /\ req[p].op = "create"
            /\ Valid(req[p])
            /\ req[p].daysRented <= 0 )
          => /\ rentals' = rentals
             /\ pc'[p] = "done" => status'[p] = 400]_vars
  /\ [](\A i \in DOMAIN rentals : rentals[i].daysRented > 0)

\* C19: handlers running one at a time: the rentals of a game, open and closed
\* together, never exceed its stockTotal.
RentalsOf(g) == {i \in DOMAIN rentals : rentals[i].gameId = g}

C19_AllRentalsWithinStock ==
  \A g \in DOMAIN games : Cardinality(RentalsOf(g)) <= games[g].stockTotal

C19_Witness ==
  \E p \in Procs :
    /\ pc[p] = "done"
    /\ ValidCreate(p)
    /\ status[p] = 201
    /\ Cardinality(RentalsOf(GameOf(p))) = games[GameOf(p)].stockTotal
    /\ \E i \in DOMAIN rentals : rentals[i].returnDate # Null

\* C20: no step of a return or delete handler, whatever the id and the ledger,
\* changes the ledger; the rows of the ledger only grow; and from a ledger with
\* no returned rental every rental keeps returnDate = null and delayFee = null.
AllOpen ==
  \A i \in DOMAIN rentals :
    rentals[i].returnDate = Null /\ rentals[i].delayFee = Null

C20_ReturnAndDeleteWriteNothing ==
  /\ [][/\ \A p \in Procs :
             (InFlight(p) /\ req[p].op \in {"return", "delete"} /\ pc'[p] # pc[p])
             => rentals' = rentals
        /\ DOMAIN rentals \subseteq DOMAIN rentals']_vars
  /\ (AllOpen => []AllOpen)

C20_Witness ==
  /\ AllOpen
  /\ \E p \in Procs :
       /\ pc[p] = "done"
       /\ req[p].op = "delete"
       /\ status[p] = 404
       /\ req[p].id \in DOMAIN rentals
       /\ rentals[req[p].id].rentDate >= StartDay

\* C16: whenever an awaited store query of a handler fails, the handler answers
\* 500 and the store is left as it was, on every endpoint.
C16_StoreFailureAnswered500 ==
  [][\A p \in Procs :
       QueryFails(p)
       => /\ pc'[p] = "done"
          /\ status'[p] = 500
          /\ UNCHANGED <<games, customers, rentals>>]_vars

\* C17: handlers running one at a time: no two customers ever hold the same
\* cpf; a POST /customers, or a PUT /customers/:id for an existing customer,
\* whose cpf is held by a different customer changes nothing and answers 409.
UniqueCpf ==
  \A i, j \in DOMAIN customers : i # j => customers[i] # customers[j]

HeldByAnother(r) ==
  \E j \in DOMAIN customers :
    /\ customers[j] = r.cpf
    /\ r.op = "putCustomer" => (j # r.id /\ r.id \in DOMAIN customers)

C17_CpfStaysUnique ==
  /\ []UniqueCpf
  /\ [][\A p \in Procs :
          ( /\ InFlight(p)
            /\ req[p].op \in {"postCustomer", "putCustomer"}
            /\ HeldByAnother(req[p]) )
          => /\ customers' = customers
             /\ pc'[p] = "done" => status'[p] = 409]_vars

====
